---- MODULE Spec2Model ----
(***************************************************************************)
(* Model of the playwright-ts configuration template: the environment      *)
(* loader (lib/config/environment-config.ts), the file loader              *)
(* (lib/config/file-config.ts), the device registry                        *)
(* (lib/types/devices/index.ts), the project composer                      *)
(* (lib/config/playwright-project-config.ts), the facade                   *)
(* (lib/config/config.ts) and the runner entry point                       *)
(* (playwright.config.ts).                                                 *)
(*                                                                         *)
(* JavaScript strings are sequences of one-character strings, so that      *)
(* toLowerCase, replace and JSON.parse are computed character by           *)
(* character.  A JavaScript value that may be undefined is a tagged        *)
(* record: Undefined, Str(chars), Bool(b); a module's export is NotLoaded  *)
(* until the module has been evaluated, then Module(exports).              *)
(***************************************************************************)
EXTENDS Integers, Sequences, FiniteSets, TLC

VARIABLES
    env,              \* process.env after dotenv.config: key -> characters
    fileSystem,       \* what fs.readFile finds at WebServerConfigPath
    desktopBrowsers,  \* the desktop list: sequence of [deviceName, channel]
    mobileBrowsers,   \* the mobile list: sequence of device names
    devices,          \* @playwright/test devices: device name -> descriptor
    pc,               \* position of the synchronous module evaluation
    envConfig,        \* environment-config.ts: exported envConfig
    projectConfig,    \* playwright-project-config.ts: default export
    fileConfig,       \* file-config.ts: default export
    read,             \* the fs.readFile request: "none", "pending", "done", "threw"
    content,          \* readObject's local variable `content`
    config,           \* config.ts: exported config (the facade)
    runnerConfig,     \* the object passed to defineConfig
    thrown,           \* error thrown synchronously during module evaluation
    uncaught,         \* error thrown from the readFile callback
    lastCall          \* outcome of a direct call of getString / getBool

vars == <<env, fileSystem, desktopBrowsers, mobileBrowsers, devices, pc,
          envConfig, projectConfig, fileConfig, read, content, config,
          runnerConfig, thrown, uncaught, lastCall>>

----------------------------------------------------------------------------
(* JavaScript values *)

Undefined == [type |-> "undefined"]
Str(s) == [type |-> "string", chars |-> s]
Bool(b) == [type |-> "boolean", val |-> b]

\* JavaScript truthiness: undefined, "" and false are falsy.
Falsy(v) ==
    \/ v.type = "undefined"
    \/ v.type = "string" /\ v.chars = <<>>
    \/ v.type = "boolean" /\ ~v.val

\* a || b
Or(a, b) == IF Falsy(a) THEN b ELSE a

Return(v) == [kind |-> "return", value |-> v]
Throw(e) == [kind |-> "throw", error |-> e]

UpperCase == <<"A", "B", "C", "D", "E", "F", "G", "H", "I", "J", "K", "L", "M",
               "N", "O", "P", "Q", "R", "S", "T", "U", "V", "W", "X", "Y", "Z">>
LowerCase == <<"a", "b", "c", "d", "e", "f", "g", "h", "i", "j", "k", "l", "m",
               "n", "o", "p", "q", "r", "s", "t", "u", "v", "w", "x", "y", "z">>

\* String.prototype.toLowerCase on a sequence of characters.
toLowerCase(s) ==
    [i \in 1..Len(s) |->
        IF \E k \in 1..Len(UpperCase) : UpperCase[k] = s[i]
        THEN LowerCase[CHOOSE k \in 1..Len(UpperCase) : UpperCase[k] = s[i]]
        ELSE s[i]]

----------------------------------------------------------------------------
(* lib/types/errors/config-error.ts *)

ConfigError(varName) == [name |-> "ConfigError", varName |-> varName, cause |-> "config"]

----------------------------------------------------------------------------
(* lib/config/environment-config.ts *)

DefaultDesktopReportPath ==
    <<"h", "t", "m", "l", "-", "r", "e", "p", "o", "r", "t", "/",
      "d", "e", "s", "k", "t", "o", "p">>
DefaultMobileReportPath ==
    <<"h", "t", "m", "l", "-", "r", "e", "p", "o", "r", "t", "/",
      "m", "o", "b", "i", "l", "e">>

\* process.env[configKey]: undefined when the key is not set.
getEnvVariable(configKey) ==
    IF configKey \in DOMAIN env THEN Str(env[configKey]) ELSE Undefined

\* getString without its check for a missing value: "" stands in for it.
getString_NoThrow(configKey, defaultValue) ==
    Return(Or(getEnvVariable(configKey), Or(defaultValue, Str(<<>>))))

\* getString with the operands of || swapped: a given default wins.
getString_DefaultFirst(configKey, defaultValue) ==
    LET value == getEnvVariable(configKey) IN
    IF Falsy(value) /\ Falsy(defaultValue)
    THEN Throw(ConfigError(configKey))
    ELSE Return(Or(defaultValue, value))

\* getString(configKey, defaultValue?): defaultValue is Undefined when omitted.
getString(configKey, defaultValue) ==
    LET value == getEnvVariable(configKey) IN
    IF Falsy(value) /\ Falsy(defaultValue)
    THEN Throw(ConfigError(configKey))
    ELSE Return(Or(value, Or(defaultValue, Str(<<>>))))

boolMap == [k \in {<<"t", "r", "u", "e">>, <<"f", "a", "l", "s", "e">>} |->
               k = <<"t", "r", "u", "e">>]

\* getBool falling back to the default for a value it does not recognise.
getBool_Lenient(configKey, defaultValue) ==
    LET value == getEnvVariable(configKey) IN
    IF Falsy(value)
    THEN Return(defaultValue)
    ELSE LET lowerValue == toLowerCase(value.chars) IN
         IF lowerValue \in DOMAIN boolMap
         THEN Return(Bool(boolMap[lowerValue]))
         ELSE Return(defaultValue)

\* getBool looking the value up as written, without toLowerCase.
getBool_CaseSensitive(configKey, defaultValue) ==
    LET value == getEnvVariable(configKey) IN
    IF Falsy(value)
    THEN Return(defaultValue)
    ELSE IF value.chars \in DOMAIN boolMap
         THEN Return(Bool(boolMap[value.chars]))
         ELSE Throw(ConfigError(configKey))

\* getBool(configKey, defaultValue = false): the caller passes Bool(FALSE)
\* for an omitted default.
getBool(configKey, defaultValue) ==
    LET value == getEnvVariable(configKey) IN
    IF Falsy(value)
    THEN Return(defaultValue)
    ELSE LET lowerValue == toLowerCase(value.chars) IN
         IF lowerValue \in DOMAIN boolMap
         THEN Return(Bool(boolMap[lowerValue]))
         ELSE Throw(ConfigError(configKey))

\* new EnvironmentConfig() with BASE_URL given a default, like the report paths.
NewEnvironmentConfig_OptionalBase ==
    LET basePath == getString("BASE_URL", Str(<<"/">>))
        desktopReportPath == getString("DESKTOP_REPORT_PATH", Str(DefaultDesktopReportPath))
        mobileReportPath == getString("MOBILE_REPORT_PATH", Str(DefaultMobileReportPath))
        runParallel == getBool("RUN_PARALLEL", Bool(FALSE))
    IN  IF basePath.kind = "throw" THEN basePath
        ELSE IF runParallel.kind = "throw" THEN runParallel
        ELSE Return([BasePath |-> basePath.value,
                     DesktopReportPath |-> desktopReportPath.value,
                     MobileReportPath |-> mobileReportPath.value,
                     RunParallel |-> runParallel.value])

\* new EnvironmentConfig(): the field initialisers run in order; the first
\* throw aborts the construction.
NewEnvironmentConfig ==
    LET basePath == getString("BASE_URL", Undefined)
        desktopReportPath == getString("DESKTOP_REPORT_PATH", Str(DefaultDesktopReportPath))
        mobileReportPath == getString("MOBILE_REPORT_PATH", Str(DefaultMobileReportPath))
        runParallel == getBool("RUN_PARALLEL", Bool(FALSE))
    IN  IF basePath.kind = "throw" THEN basePath
        ELSE IF desktopReportPath.kind = "throw" THEN desktopReportPath
        ELSE IF mobileReportPath.kind = "throw" THEN mobileReportPath
        ELSE IF runParallel.kind = "throw" THEN runParallel
        ELSE Return([BasePath |-> basePath.value,
                     DesktopReportPath |-> desktopReportPath.value,
                     MobileReportPath |-> mobileReportPath.value,
                     RunParallel |-> runParallel.value])

\* obj.field: undefined when the object has no such property.
Get(obj, field) == IF field \in DOMAIN obj THEN obj[field] ELSE Undefined

----------------------------------------------------------------------------
(* lib/config/playwright-reporter-config.ts *)

reporters == << <<"html", [open |-> "never"]>>, <<"line">> >>

----------------------------------------------------------------------------
(* lib/types/devices/samsung-a52.ts, lib/types/devices/index.ts *)

GalaxyA52Name == <<"G", "a", "l", "a", "x", "y", " ", "A", "5", "2">>

GalaxyA52 ==
    [userAgent |-> "Mozilla/5.0 (Linux; Android 11; SAMSUNG SM-A526B) Chrome/90.0.4430.91 Mobile",
     viewport |-> [width |-> 412, height |-> 915],
     deviceScaleFactor |-> "2.75",
     isMobile |-> TRUE,
     hasTouch |-> TRUE,
     defaultBrowserType |-> "chromium"]

__customList == (GalaxyA52Name :> GalaxyA52)

\* A spread in which the earlier object's properties win.
Spread_FirstWins(a, b) == a @@ b

\* { ...a, ...b }: the properties of b win.
Spread(a, b) == b @@ a

\* customDevices = { ...devices, ...__customList }
customDevices == Spread(devices, __customList)

\* customDevices[deviceId]
resolve(deviceId) ==
    IF deviceId \in DOMAIN customDevices THEN customDevices[deviceId] ELSE Undefined

----------------------------------------------------------------------------
(* lib/config/playwright-project-config.ts *)

DesktopPrefix == <<"D", "e", "s", "k", "t", "o", "p", " ">>
DesktopName == <<"D", "e", "s", "k", "t", "o", "p">>
MobileName == <<"M", "o", "b", "i", "l", "e">>

\* String.prototype.indexOf, 1-based; 0 when pat does not occur in s.
IndexOf(s, pat) ==
    LET hits == {i \in 1..(Len(s) - Len(pat) + 1) : SubSeq(s, i, i + Len(pat) - 1) = pat}
    IN  IF hits = {} THEN 0 ELSE CHOOSE i \in hits : \A j \in hits : i <= j

\* String.prototype.replace with a string pattern: the first occurrence only.
replace(s, pat, rep) ==
    LET i == IndexOf(s, pat)
    IN  IF i = 0 THEN s
        ELSE SubSeq(s, 1, i - 1) \o rep \o SubSeq(s, i + Len(pat), Len(s))

\* { ...obj }: spreading undefined contributes no property.
SpreadOf(obj) == IF obj = Undefined THEN <<>> ELSE obj

\* createDeviceProject without the channel property.
createDeviceProject_NoChannel(id, deviceId, outputDir, channel) ==
    [name |-> Str(id),
     use |-> SpreadOf(resolve(deviceId)),
     outputDir |-> outputDir]

createDeviceProject(id, deviceId, outputDir, channel) ==
    [name |-> Str(id),
     use |-> Spread(SpreadOf(resolve(deviceId)), ("channel" :> channel)),
     outputDir |-> outputDir]

desktopProjects(ec) ==
    [i \in 1..Len(desktopBrowsers) |->
        createDeviceProject(replace(desktopBrowsers[i].deviceName, DesktopPrefix, <<>>),
                            desktopBrowsers[i].deviceName,
                            ec.DesktopReportPath,
                            desktopBrowsers[i].channel)]

mobileProjects(ec) ==
    [i \in 1..Len(mobileBrowsers) |->
        createDeviceProject(mobileBrowsers[i], mobileBrowsers[i],
                            ec.MobileReportPath, Undefined)]

\* The project sequence with each aggregate collecting the settings of the
\* individual projects (channel included) instead of the registry's entries.
composeProjects_AggregateOfProjects(ec) ==
    << [name |-> Str(DesktopName),
        use |-> [i \in 1..Len(desktopBrowsers) |-> desktopProjects(ec)[i].use],
        outputDir |-> ec.DesktopReportPath],
       [name |-> Str(MobileName),
        use |-> [i \in 1..Len(mobileBrowsers) |-> mobileProjects(ec)[i].use],
        outputDir |-> ec.MobileReportPath] >>
    \o desktopProjects(ec) \o mobileProjects(ec)

\* The project sequence with the individual mobile projects spread first.
composeProjects_MobileFirst(ec) ==
    << [name |-> Str(DesktopName),
        use |-> [i \in 1..Len(desktopBrowsers) |-> resolve(desktopBrowsers[i].deviceName)],
        outputDir |-> ec.DesktopReportPath],
       [name |-> Str(MobileName),
        use |-> [i \in 1..Len(mobileBrowsers) |-> resolve(mobileBrowsers[i])],
        outputDir |-> ec.MobileReportPath] >>
    \o mobileProjects(ec) \o desktopProjects(ec)

\* The exported project sequence, given the environment settings ec.
composeProjects(ec) ==
    << [name |-> Str(DesktopName),
        use |-> [i \in 1..Len(desktopBrowsers) |-> resolve(desktopBrowsers[i].deviceName)],
        outputDir |-> ec.DesktopReportPath],
       [name |-> Str(MobileName),
        use |-> [i \in 1..Len(mobileBrowsers) |-> resolve(mobileBrowsers[i])],
        outputDir |-> ec.MobileReportPath] >>
    \o desktopProjects(ec) \o mobileProjects(ec)

----------------------------------------------------------------------------
(* lib/config/file-config.ts *)

WebServerConfigPath == "env/config/web-server.json"

Digits == {"0", "1", "2", "3", "4", "5", "6", "7", "8", "9"}

ParseFail == [ok |-> FALSE]
ParseOk(v, n) == [ok |-> TRUE, value |-> v, next |-> n]

\* First index >= i of s that holds no blank (Len(s) + 1 when there is none).
SkipWs(s, i) ==
    LET rest == {j \in i..Len(s) : s[j] # " "}
    IN  IF rest = {} THEN Len(s) + 1 ELSE CHOOSE j \in rest : \A k \in rest : j <= k

\* First index >= i of s that holds no digit.
SkipDigits(s, i) ==
    LET rest == {j \in i..Len(s) : s[j] \notin Digits}
    IN  IF rest = {} THEN Len(s) + 1 ELSE CHOOSE j \in rest : \A k \in rest : j <= k

RECURSIVE ParseValue(_, _), ParseElements(_, _, _)

\* JSON.parse's grammar restricted to arrays, the empty object and unsigned
\* integers; a parsed document is [type |-> "array", items |-> <<...>>],
\* [type |-> "object"] or [type |-> "number", digits |-> <<...>>].
ParseValue(s, i) ==
    LET j == SkipWs(s, i) IN
    IF j > Len(s) THEN ParseFail
    ELSE IF s[j] \in Digits THEN
        LET e == SkipDigits(s, j) IN
        IF s[j] = "0" /\ e > j + 1 THEN ParseFail
        ELSE ParseOk([type |-> "number", digits |-> SubSeq(s, j, e - 1)], e)
    ELSE IF s[j] = "{" THEN
        LET k == SkipWs(s, j + 1) IN
        IF k <= Len(s) /\ s[k] = "}" THEN ParseOk([type |-> "object"], k + 1)
        ELSE ParseFail
    ELSE IF s[j] = "[" THEN
        LET k == SkipWs(s, j + 1) IN
        IF k <= Len(s) /\ s[k] = "]"
        THEN ParseOk([type |-> "array", items |-> <<>>], k + 1)
        ELSE ParseElements(s, k, <<>>)
    ELSE ParseFail

ParseElements(s, i, acc) ==
    LET r == ParseValue(s, i) IN
    IF ~r.ok THEN ParseFail
    ELSE LET k == SkipWs(s, r.next) IN
         IF k > Len(s) THEN ParseFail
         ELSE IF s[k] = "]"
              THEN ParseOk([type |-> "array", items |-> Append(acc, r.value)], k + 1)
         ELSE IF s[k] = "," THEN ParseElements(s, k + 1, Append(acc, r.value))
         ELSE ParseFail

SyntaxError == [name |-> "SyntaxError"]

\* parseJSON<T>(jsonString): JSON.parse, which throws SyntaxError.
parseJSON(jsonString) ==
    LET r == ParseValue(jsonString, 1) IN
    IF r.ok /\ SkipWs(jsonString, r.next) > Len(jsonString)
    THEN Return(r.value)
    ELSE Throw(SyntaxError)

\* What fs.readFile(path, "utf-8", cb) passes to its callback.
readFile(path) ==
    IF ~fileSystem.exists THEN [err |-> "ENOENT"]
    ELSE IF ~fileSystem.readable THEN [err |-> "EACCES"]
    ELSE [err |-> "null", data |-> fileSystem.data]

\* readObject from `if (!content)` to its return, c being the value of the
\* local variable `content` at that point.
readObjectResult(c) ==
    IF c = <<>> THEN Return(Undefined) ELSE parseJSON(c)

----------------------------------------------------------------------------
(* Module evaluation: playwright.config.ts imports lib/config/config.ts,    *)
(* which imports environment-config, playwright-reporter-config,            *)
(* playwright-project-config and file-config in that order, each evaluated  *)
(* to completion before the next; the readFile callback runs from the       *)
(* event loop, so only once the synchronous evaluation has ended.           *)

NotLoaded == [loaded |-> FALSE]
Module(exports) == [loaded |-> TRUE, exports |-> exports]

NoThrow == [at |-> "nowhere"]
NoError == [name |-> "none"]
NoCall == [fn |-> "none"]

\* environment-config.ts: export const envConfig = new EnvironmentConfig()
LoadEnvironmentConfig ==
    /\ pc = "environment-config"
    /\ LET r == NewEnvironmentConfig IN
       IF r.kind = "throw"
       THEN /\ thrown' = [at |-> pc, error |-> r.error]
            /\ pc' = "failed"
            /\ UNCHANGED envConfig
       ELSE /\ envConfig' = Module(r.value)
            /\ pc' = "reporter-config"
            /\ UNCHANGED thrown
    /\ UNCHANGED <<env, fileSystem, desktopBrowsers, mobileBrowsers, devices,
                   projectConfig, fileConfig, read, content, config,
                   runnerConfig, uncaught, lastCall>>

\* playwright-reporter-config.ts: a static list
LoadReporterConfig ==
    /\ pc = "reporter-config"
    /\ pc' = "project-config"
    /\ UNCHANGED <<env, fileSystem, desktopBrowsers, mobileBrowsers, devices,
                   envConfig, projectConfig, fileConfig, read, content, config,
                   runnerConfig, thrown, uncaught, lastCall>>

\* playwright-project-config.ts: export default projectConfig
LoadProjectConfig ==
    /\ pc = "project-config"
    /\ projectConfig' = Module(composeProjects(envConfig.exports))
    /\ pc' = "file-config"
    /\ UNCHANGED <<env, fileSystem, desktopBrowsers, mobileBrowsers, devices,
                   envConfig, fileConfig, read, content, config,
                   runnerConfig, thrown, uncaught, lastCall>>

\* file-config.ts: PlayWrightServerConfig: readObject(WebServerConfigPath).
\* readObject sets content to "", hands the read to fs.readFile and goes on
\* to test content at once.
LoadFileConfig ==
    /\ pc = "file-config"
    /\ content' = <<>>
    /\ read' = "pending"
    /\ LET r == readObjectResult(content') IN
       IF r.kind = "throw"
       THEN /\ thrown' = [at |-> pc, error |-> r.error]
            /\ pc' = "failed"
            /\ UNCHANGED fileConfig
       ELSE /\ fileConfig' = Module([PlayWrightServerConfig |-> r.value])
            /\ pc' = "config"
            /\ UNCHANGED thrown
    /\ UNCHANGED <<env, fileSystem, desktopBrowsers, mobileBrowsers, devices,
                   envConfig, projectConfig, config, runnerConfig, uncaught,
                   lastCall>>

\* The callback passed to fs.readFile: throws on any err, else stores data.
ReadFileCallback ==
    /\ read = "pending"
    /\ pc \in {"loaded", "failed"}
    /\ LET r == readFile(WebServerConfigPath) IN
       IF r.err # "null"
       THEN /\ uncaught' = ConfigError(WebServerConfigPath)
            /\ read' = "threw"
            /\ UNCHANGED content
       ELSE /\ content' = r.data
            /\ read' = "done"
            /\ UNCHANGED uncaught
    /\ UNCHANGED <<env, fileSystem, desktopBrowsers, mobileBrowsers, devices, pc,
                   envConfig, projectConfig, fileConfig, config, runnerConfig,
                   thrown, lastCall>>

\* config.ts: export const config = new Config()
ConstructConfig ==
    /\ pc = "config"
    /\ config' = Module([EnvironmentConfig |-> envConfig.exports,
                         Reporters |-> reporters,
                         ProjectConfig |-> projectConfig.exports,
                         FileConfig |-> fileConfig.exports])
    /\ pc' = "playwright.config"
    /\ UNCHANGED <<env, fileSystem, desktopBrowsers, mobileBrowsers, devices,
                   envConfig, projectConfig, fileConfig, read, content,
                   runnerConfig, thrown, uncaught, lastCall>>

\* playwright.config.ts: export default defineConfig({...})
DefineConfig ==
    /\ pc = "playwright.config"
    /\ LET ci == getEnvVariable("CI") IN
       runnerConfig' =
           Module([testDir |-> "./tests-examples",
                   fullyParallel |-> Get(config.exports.EnvironmentConfig, "RunParrel"),
                   forbidOnly |-> Bool(~Falsy(ci)),
                   retries |-> IF Falsy(ci) THEN 0 ELSE 2,
                   workers |-> IF Falsy(ci) THEN Undefined ELSE [type |-> "number", val |-> 1],
                   reporter |-> config.exports.Reporters,
                   use |-> [baseURL |-> config.exports.EnvironmentConfig.BasePath,
                            trace |-> "on-first-retry"],
                   projects |-> config.exports.ProjectConfig,
                   webServer |-> config.exports.FileConfig.PlayWrightServerConfig])
    /\ pc' = "loaded"
    /\ UNCHANGED <<env, fileSystem, desktopBrowsers, mobileBrowsers, devices,
                   envConfig, projectConfig, fileConfig, read, content, config,
                   thrown, uncaught, lastCall>>

Next ==
    \/ LoadEnvironmentConfig
    \/ LoadReporterConfig
    \/ LoadProjectConfig
    \/ LoadFileConfig
    \/ ConstructConfig
    \/ DefineConfig
    \/ ReadFileCallback

----------------------------------------------------------------------------
(* Inputs *)

EnvKeys == {"BASE_URL", "DESKTOP_REPORT_PATH", "MOBILE_REPORT_PATH", "RUN_PARALLEL", "CI"}

\* A key is either not set (no property) or set to one of the values.
Setting(key, values) == {<<>>} \cup {(key :> v) : v \in values}

BaseUrlValues == {<<>>, <<"h", "t", "t", "p", ":", "/", "/", "a">>}
DesktopPathValues == {<<>>, <<"o", "u", "t">>, DefaultDesktopReportPath}
MobilePathValues == {<<>>, <<"o", "u", "t">>, DefaultMobileReportPath}
RunParallelValues == {<<>>, <<"t", "r", "u", "e">>, <<"T", "r", "u", "e">>, <<"T", "R", "U", "E">>, <<"f", "a", "l", "s", "e">>, <<"F", "A", "L", "S", "E">>, <<"y", "e", "s">>, <<"t", "r", "u", "e", "e">>}
CiValues == {<<"1">>}

Environments ==
    {b @@ d @@ m @@ r @@ c :
        b \in Setting("BASE_URL", BaseUrlValues),
        d \in Setting("DESKTOP_REPORT_PATH", DesktopPathValues),
        m \in Setting("MOBILE_REPORT_PATH", MobilePathValues),
        r \in Setting("RUN_PARALLEL", RunParallelValues),
        c \in Setting("CI", CiValues)}

Missing == [exists |-> FALSE]
Unreadable == [exists |-> TRUE, readable |-> FALSE]
File(data) == [exists |-> TRUE, readable |-> TRUE, data |-> data]

FileContents ==
    {<<>>, <<"[", "{", "}", "]">>, <<"[", "1", ",", " ", "2", "0", "]">>, <<"[">>, <<"[", "1", ",", "]">>, <<" ">>, <<"0", "1">>, <<"x">>}

FileSystems == {Missing, Unreadable} \cup {File(d) : d \in FileContents}

Descriptor(ua, w, h, mobile, engine) ==
    [userAgent |-> ua, viewport |-> [width |-> w, height |-> h],
     deviceScaleFactor |-> "1", isMobile |-> mobile, hasTouch |-> mobile,
     defaultBrowserType |-> engine]

DesktopChrome == <<"D", "e", "s", "k", "t", "o", "p", " ", "C", "h", "r", "o", "m", "e">>
DesktopEdge == <<"D", "e", "s", "k", "t", "o", "p", " ", "E", "d", "g", "e">>
DesktopFirefox == <<"D", "e", "s", "k", "t", "o", "p", " ", "F", "i", "r", "e", "f", "o", "x">>
DesktopSafari == <<"D", "e", "s", "k", "t", "o", "p", " ", "S", "a", "f", "a", "r", "i">>
GalaxyS5 == <<"G", "a", "l", "a", "x", "y", " ", "S", "5">>
GalaxyS5Landscape == <<"G", "a", "l", "a", "x", "y", " ", "S", "5", " ", "l", "a", "n", "d", "s", "c", "a", "p", "e">>
IPhone12 == <<"i", "P", "h", "o", "n", "e", " ", "1", "2">>

\* The entries of @playwright/test's devices that the lists of
\* playwright-project-config.ts name.
PlaywrightDevices ==
    (DesktopChrome :> Descriptor("Chrome", 1280, 720, FALSE, "chromium")) @@
    (DesktopEdge :> Descriptor("Edg", 1280, 720, FALSE, "chromium")) @@
    (DesktopFirefox :> Descriptor("Firefox", 1280, 720, FALSE, "firefox")) @@
    (DesktopSafari :> Descriptor("Safari", 1280, 720, FALSE, "webkit")) @@
    (GalaxyS5 :> Descriptor("Android 5.0; SM-G900P", 360, 640, TRUE, "chromium")) @@
    (GalaxyS5Landscape :> Descriptor("Android 5.0; SM-G900P", 640, 360, TRUE, "chromium")) @@
    (IPhone12 :> Descriptor("iPhone OS 14_4", 390, 664, TRUE, "webkit"))

Target(deviceName, channel) == [deviceName |-> deviceName, channel |-> channel]

CodeDesktopBrowsers ==
    << Target(DesktopChrome, Str(<<"c", "h", "r", "o", "m", "e">>)),
       Target(DesktopEdge, Str(<<"m", "s", "e", "d", "g", "e">>)),
       Target(DesktopFirefox, Undefined),
       Target(DesktopSafari, Undefined) >>

CodeMobileBrowsers == <<GalaxyS5, GalaxyS5Landscape, GalaxyA52Name, IPhone12>>

Start ==
    /\ pc = "environment-config"
    /\ envConfig = NotLoaded
    /\ projectConfig = NotLoaded
    /\ fileConfig = NotLoaded
    /\ config = NotLoaded
    /\ runnerConfig = NotLoaded
    /\ read = "none"
    /\ content = <<>>
    /\ thrown = NoThrow
    /\ uncaught = NoError
    /\ lastCall = NoCall

\* Startup of the repository as written, for every environment and every
\* state of the web-server settings file.
Init ==
    /\ env \in Environments
    /\ fileSystem \in FileSystems
    /\ desktopBrowsers = CodeDesktopBrowsers
    /\ mobileBrowsers = CodeMobileBrowsers
    /\ devices = PlaywrightDevices
    /\ Start

Spec == Init /\ [][Next]_vars

----------------------------------------------------------------------------
(* Direct calls of the environment loader's functions, for every key and   *)
(* every default.                                                          *)

CallKeys == EnvKeys \cup {"NOT_SET"}
StringDefaults ==
    {Undefined, Str(<<>>), Str(<<"o", "u", "t">>), Str(DefaultDesktopReportPath),
     Str(DefaultMobileReportPath)}
BoolDefaults == {Bool(FALSE), Bool(TRUE)}

CallGetString(configKey, defaultValue) ==
    /\ lastCall' = [fn |-> "getString", configKey |-> configKey,
                    defaultValue |-> defaultValue,
                    result |-> getString(configKey, defaultValue)]
    /\ UNCHANGED <<env, fileSystem, desktopBrowsers, mobileBrowsers, devices, pc,
                   envConfig, projectConfig, fileConfig, read, content, config,
                   runnerConfig, thrown, uncaught>>

CallGetBool(configKey, defaultValue) ==
    /\ lastCall' = [fn |-> "getBool", configKey |-> configKey,
                    defaultValue |-> defaultValue,
                    result |-> getBool(configKey, defaultValue)]
    /\ UNCHANGED <<env, fileSystem, desktopBrowsers, mobileBrowsers, devices, pc,
                   envConfig, projectConfig, fileConfig, read, content, config,
                   runnerConfig, thrown, uncaught>>

NextEnv ==
    \/ \E k \in CallKeys, d \in StringDefaults : CallGetString(k, d)
    \/ \E k \in CallKeys, d \in BoolDefaults : CallGetBool(k, d)

InitEnv ==
    /\ env \in Environments
    /\ fileSystem = Missing
    /\ desktopBrowsers = CodeDesktopBrowsers
    /\ mobileBrowsers = CodeMobileBrowsers
    /\ devices = PlaywrightDevices
    /\ Start

SpecEnv == InitEnv /\ [][NextEnv]_vars

----------------------------------------------------------------------------
(* Startup for every desktop list and mobile list of at most MaxTargets    *)
(* targets, over a registry that knows some of the names.                  *)

MaxTargets == 2

ChromeName == <<"C", "h", "r", "o", "m", "e">>
DesktopMobile == <<"D", "e", "s", "k", "t", "o", "p", " ", "M", "o", "b", "i", "l", "e">>
MyDesktopPC == <<"M", "y", " ", "D", "e", "s", "k", "t", "o", "p", " ", "P", "C">>
Nokia == <<"N", "o", "k", "i", "a">>

\* Nokia is in no registry.
ComposeDevices ==
    (DesktopChrome :> Descriptor("Chrome", 1280, 720, FALSE, "chromium")) @@
    (ChromeName :> Descriptor("Chrome Mobile", 360, 640, TRUE, "chromium")) @@
    (DesktopMobile :> Descriptor("Desktop Mobile", 800, 600, FALSE, "webkit")) @@
    (MyDesktopPC :> Descriptor("PC", 1920, 1080, FALSE, "firefox"))

\* With and without a built-in device named like the custom one.
ComposeRegistries ==
    {ComposeDevices,
     (GalaxyA52Name :> Descriptor("Android 11; SM-A525F", 360, 800, TRUE, "chromium"))
        @@ ComposeDevices}

ComposeDesktopTargets ==
    {Target(DesktopChrome, Str(<<"c", "h", "r", "o", "m", "e">>)), Target(DesktopChrome, Undefined),
     Target(DesktopMobile, Undefined), Target(MyDesktopPC, Undefined),
     Target(Nokia, Str(<<"c", "h", "r", "o", "m", "e">>))}

ComposeMobileNames == {ChromeName, DesktopChrome, GalaxyA52Name, Nokia}

SeqsUpTo(S, n) == UNION {[1..k -> S] : k \in 0..n}

ComposeEnvironments ==
    {("BASE_URL" :> <<"h", "t", "t", "p", ":", "/", "/", "a">>),
     ("BASE_URL" :> <<"h", "t", "t", "p", ":", "/", "/", "a">>) @@ ("DESKTOP_REPORT_PATH" :> <<"o", "u", "t">>)}

InitCompose ==
    /\ env \in ComposeEnvironments
    /\ fileSystem = Missing
    /\ desktopBrowsers \in SeqsUpTo(ComposeDesktopTargets, MaxTargets)
    /\ mobileBrowsers \in SeqsUpTo(ComposeMobileNames, MaxTargets)
    /\ devices \in ComposeRegistries
    /\ Start

SpecCompose == InitCompose /\ [][Next]_vars

----------------------------------------------------------------------------
(* Properties *)

UnknownNames ==
    ({desktopBrowsers[i].deviceName : i \in 1..Len(desktopBrowsers)}
        \cup {mobileBrowsers[i] : i \in 1..Len(mobileBrowsers)})
    \ DOMAIN customDevices

\* C1: whenever the project sequence has been produced, the names of its
\* projects (the two aggregates and every individual project) are pairwise
\* distinct; a composition that would repeat a name produces no sequence.
C1_NamesUnique ==
    projectConfig.loaded =>
        \A i, j \in 1..Len(projectConfig.exports) :
            i # j => projectConfig.exports[i].name # projectConfig.exports[j].name

\* C2: when a device name of the desktop or mobile list is not a key of the
\* registry, no project sequence is produced (composition fails instead).
C2_UnknownDeviceFails ==
    UnknownNames # {} => ~projectConfig.loaded

\* C3: whenever readObject has returned its value, the facade exists or the
\* configuration has been handed to the runner, the read of the settings
\* file has completed (its callback has run).
C3_ReadCompleteBeforeFacade ==
    (fileConfig.loaded \/ config.loaded \/ runnerConfig.loaded)
        => read \in {"done", "threw"}

\* C4: when the settings file does not exist, the loader yields undefined
\* and no error is raised, neither by readObject nor by the read's callback.
C4_MissingFileNoError ==
    ~fileSystem.exists =>
        /\ thrown.at # "file-config"
        /\ uncaught = NoError
        /\ (fileConfig.loaded => fileConfig.exports.PlayWrightServerConfig = Undefined)

InvalidJsonFile ==
    /\ fileSystem.exists
    /\ fileSystem.readable
    /\ fileSystem.data # <<>>
    /\ parseJSON(fileSystem.data).kind = "throw"

ValidJsonFile ==
    /\ fileSystem.exists
    /\ fileSystem.readable
    /\ fileSystem.data # <<>>
    /\ parseJSON(fileSystem.data).kind = "return"

\* C5: when the settings file holds non-empty text that is not valid JSON,
\* the loader never returns a value (neither undefined nor a document), and
\* no facade is built on one.
C5_InvalidJsonFails ==
    InvalidJsonFile => (~fileConfig.loaded /\ ~config.loaded)

\* C6: when the read of the settings file reports an error other than "does
\* not exist", readObject itself fails with ConfigError(path): it returns no
\* value, the facade is not constructed, and no error is left to the callback.
C6_ReadErrorFailsCall ==
    (fileSystem.exists /\ ~fileSystem.readable) =>
        /\ ~fileConfig.loaded
        /\ ~config.loaded
        /\ uncaught = NoError

\* C7: when the settings file holds a non-empty valid JSON document,
\* readObject returns the parsed document and the webServer option handed to
\* the runner is that document.
C7_ValidJsonParsed ==
    ValidJsonFile =>
        /\ (fileConfig.loaded =>
              fileConfig.exports.PlayWrightServerConfig = parseJSON(fileSystem.data).value)
        /\ (runnerConfig.loaded =>
              runnerConfig.exports.webServer = parseJSON(fileSystem.data).value)

\* C8: getString(key) without a default throws ConfigError(key) when the key
\* is not set in the environment.
C8_GetStringMissingThrows ==
    (/\ lastCall.fn = "getString"
     /\ lastCall.defaultValue = Undefined
     /\ lastCall.configKey \notin DOMAIN env)
        => lastCall.result = Throw(ConfigError(lastCall.configKey))

C8_Witness ==
    /\ lastCall.fn = "getString"
    /\ lastCall.defaultValue = Undefined
    /\ lastCall.configKey = "BASE_URL"
    /\ "BASE_URL" \notin DOMAIN env
    /\ lastCall.result.kind = "throw"

\* The calls new EnvironmentConfig() makes for the two report paths.
IsReportPathCall ==
    /\ lastCall.fn = "getString"
    /\ \/ /\ lastCall.configKey = "DESKTOP_REPORT_PATH"
          /\ lastCall.defaultValue = Str(DefaultDesktopReportPath)
       \/ /\ lastCall.configKey = "MOBILE_REPORT_PATH"
          /\ lastCall.defaultValue = Str(DefaultMobileReportPath)

\* C9 as claimed: a getString that returns yields the exact value of the
\* variable when the key is set, whatever the default, and the default when
\* it is not set; the report paths are their defaults exactly when their
\* variables are not set.
C9_PresentValueExact ==
    (lastCall.fn = "getString" /\ lastCall.result.kind = "return") =>
        /\ (lastCall.configKey \in DOMAIN env
              => lastCall.result.value = Str(env[lastCall.configKey]))
        /\ (lastCall.configKey \notin DOMAIN env
              => lastCall.result.value = lastCall.defaultValue)
        /\ (IsReportPathCall =>
              (lastCall.result.value = lastCall.defaultValue
                  <=> lastCall.configKey \notin DOMAIN env))

\* C9 as amended: a getString that returns yields the exact value of the
\* variable when the key is set to a non-empty string, whatever the default,
\* and the default when the key is not set or set to the empty string; the
\* report paths are their defaults exactly when their variables are not set,
\* empty, or set to the default's own text.
C9_NonEmptyValueExact ==
    (lastCall.fn = "getString" /\ lastCall.result.kind = "return") =>
        LET key == lastCall.configKey
            set == key \in DOMAIN env /\ env[key] # <<>>
        IN  /\ (set => lastCall.result.value = Str(env[key]))
            /\ (~set => lastCall.result.value = lastCall.defaultValue)
            /\ (IsReportPathCall =>
                  (lastCall.result.value = lastCall.defaultValue
                      <=> (~set \/ Str(env[key]) = lastCall.defaultValue)))

C9_Witness ==
    /\ lastCall.fn = "getString"
    /\ lastCall.configKey = "DESKTOP_REPORT_PATH"
    /\ lastCall.defaultValue = Str(DefaultDesktopReportPath)
    /\ "DESKTOP_REPORT_PATH" \in DOMAIN env
    /\ env["DESKTOP_REPORT_PATH"] = <<"o", "u", "t">>
    /\ lastCall.result = Return(Str(<<"o", "u", "t">>))

\* s equals word (given in lower case) up to the case of its letters.
EqualsIgnoringCase(s, word) ==
    /\ Len(s) = Len(word)
    /\ \A i \in 1..Len(s) :
          \/ s[i] = word[i]
          \/ \E k \in 1..Len(LowerCase) : LowerCase[k] = word[i] /\ UpperCase[k] = s[i]

IsBoolText(s) ==
    \/ EqualsIgnoringCase(s, <<"t", "r", "u", "e">>)
    \/ EqualsIgnoringCase(s, <<"f", "a", "l", "s", "e">>)

\* C10 as claimed: getBool throws ConfigError(key), for every default, when
\* the key is set to a value that is neither 'true' nor 'false' up to case.
C10_NonBoolThrows ==
    (/\ lastCall.fn = "getBool"
     /\ lastCall.configKey \in DOMAIN env
     /\ ~IsBoolText(env[lastCall.configKey]))
        => lastCall.result = Throw(ConfigError(lastCall.configKey))

\* C10 as amended: getBool throws ConfigError(key), for every default, when
\* the key is set to a non-empty value that is neither 'true' nor 'false' up
\* to case; a key set to the empty string yields the default, as a key that
\* is not set does.
C10_NonEmptyNonBoolThrows ==
    (lastCall.fn = "getBool" /\ lastCall.configKey \in DOMAIN env) =>
        LET v == env[lastCall.configKey] IN
        /\ ((v # <<>> /\ ~IsBoolText(v))
              => lastCall.result = Throw(ConfigError(lastCall.configKey)))
        /\ (v = <<>> => lastCall.result = Return(lastCall.defaultValue))

C10_Witness ==
    /\ lastCall.fn = "getBool"
    /\ lastCall.configKey = "RUN_PARALLEL"
    /\ lastCall.defaultValue = Bool(TRUE)
    /\ "RUN_PARALLEL" \in DOMAIN env
    /\ env["RUN_PARALLEL"] = <<"y", "e", "s">>
    /\ lastCall.result.kind = "throw"

\* C11: getBool returns true when the value equals 'true' up to case, false
\* when it equals 'false' up to case (whatever the default), and the default
\* when the key is not set.
C11_GetBoolValues ==
    lastCall.fn = "getBool" =>
        LET key == lastCall.configKey IN
        /\ ((key \in DOMAIN env /\ EqualsIgnoringCase(env[key], <<"t", "r", "u", "e">>))
              => lastCall.result = Return(Bool(TRUE)))
        /\ ((key \in DOMAIN env /\ EqualsIgnoringCase(env[key], <<"f", "a", "l", "s", "e">>))
              => lastCall.result = Return(Bool(FALSE)))
        /\ (key \notin DOMAIN env => lastCall.result = Return(lastCall.defaultValue))

C11_Witness ==
    /\ lastCall.fn = "getBool"
    /\ lastCall.configKey = "RUN_PARALLEL"
    /\ lastCall.defaultValue = Bool(TRUE)
    /\ "RUN_PARALLEL" \in DOMAIN env
    /\ env["RUN_PARALLEL"] = <<"F", "A", "L", "S", "E">>
    /\ lastCall.result = Return(Bool(FALSE))

\* C12: when BASE_URL is not set, the evaluation of environment-config fails
\* with ConfigError("BASE_URL"), and in every state from then on the
\* environment settings, the project sequence and the facade do not exist and
\* nothing has been handed to the runner.
C12_MissingBaseUrlAborts ==
    "BASE_URL" \notin DOMAIN env =>
        /\ ~envConfig.loaded
        /\ ~projectConfig.loaded
        /\ ~config.loaded
        /\ ~runnerConfig.loaded
        /\ pc \in {"environment-config", "failed"}
        /\ (pc = "failed" =>
              thrown = [at |-> "environment-config", error |-> ConfigError("BASE_URL")])

C12_Witness ==
    /\ "BASE_URL" \notin DOMAIN env
    /\ pc = "failed"
    /\ thrown = [at |-> "environment-config", error |-> ConfigError("BASE_URL")]
    /\ ~config.loaded

StartsWith(s, prefix) ==
    Len(s) >= Len(prefix) /\ SubSeq(s, 1, Len(prefix)) = prefix

\* s without prefix when s starts with it, else s.
StripPrefix(s, prefix) ==
    IF StartsWith(s, prefix) THEN SubSeq(s, Len(prefix) + 1, Len(s)) ELSE s

\* The individual project of the i-th desktop target and of the i-th mobile
\* target in the exported sequence.
DesktopProjectAt(i) == projectConfig.exports[2 + i]
MobileProjectAt(i) == projectConfig.exports[2 + Len(desktopBrowsers) + i]

\* C13: the individual project of a desktop target is named by the device
\* name without a leading "Desktop " and by the unchanged device name when it
\* does not start with "Desktop "; the individual project of a mobile target
\* is named by the device name.
C13_PrefixStripped ==
    projectConfig.loaded =>
        /\ \A i \in 1..Len(desktopBrowsers) :
              DesktopProjectAt(i).name =
                  Str(StripPrefix(desktopBrowsers[i].deviceName, DesktopPrefix))
        /\ \A i \in 1..Len(mobileBrowsers) :
              MobileProjectAt(i).name = Str(mobileBrowsers[i])

\* C14: the exported sequence has 2 + |desktop list| + |mobile list| projects:
\* the 'Desktop' aggregate first, the 'Mobile' aggregate second, then the
\* individual project of each desktop target in the order of the desktop list
\* (recognised by its channel and the desktop output directory), then the
\* individual project of each mobile target in the order of the mobile list
\* (recognised by its name and the mobile output directory).
C14_SequenceShape ==
    projectConfig.loaded =>
        LET ps == projectConfig.exports IN
        /\ Len(ps) = 2 + Len(desktopBrowsers) + Len(mobileBrowsers)
        /\ ps[1].name = Str(DesktopName)
        /\ ps[2].name = Str(MobileName)
        /\ \A i \in 1..Len(desktopBrowsers) :
              /\ DesktopProjectAt(i).use["channel"] = desktopBrowsers[i].channel
              /\ DesktopProjectAt(i).outputDir = envConfig.exports.DesktopReportPath
        /\ \A i \in 1..Len(mobileBrowsers) :
              /\ MobileProjectAt(i).name = Str(mobileBrowsers[i])
              /\ MobileProjectAt(i).outputDir = envConfig.exports.MobileReportPath

C14_Witness ==
    /\ projectConfig.loaded
    /\ Len(desktopBrowsers) = 2
    /\ desktopBrowsers[1].channel # desktopBrowsers[2].channel
    /\ Len(mobileBrowsers) = 2
    /\ mobileBrowsers[1] # mobileBrowsers[2]
    /\ Len(projectConfig.exports) = 6

\* The channel given with the i-th mobile target: the mobile list holds device
\* names only, so none is ever given.
MobileChannel(i) == Undefined

\* C15 as claimed: for a registered target, the individual project's settings
\* are the registry's descriptor with the channel added when one is given and
\* the unmodified descriptor when none is given; its output directory is that
\* of its category.
C15_SettingsDescriptorPlusChannel ==
    projectConfig.loaded =>
        /\ \A i \in 1..Len(desktopBrowsers) :
              LET t == desktopBrowsers[i] IN
              t.deviceName \in DOMAIN customDevices =>
                  /\ DesktopProjectAt(i).use =
                        IF t.channel # Undefined
                        THEN ("channel" :> t.channel) @@ customDevices[t.deviceName]
                        ELSE customDevices[t.deviceName]
                  /\ DesktopProjectAt(i).outputDir = envConfig.exports.DesktopReportPath
        /\ \A i \in 1..Len(mobileBrowsers) :
              mobileBrowsers[i] \in DOMAIN customDevices =>
                  /\ MobileProjectAt(i).use =
                        IF MobileChannel(i) # Undefined
                        THEN ("channel" :> MobileChannel(i)) @@ customDevices[mobileBrowsers[i]]
                        ELSE customDevices[mobileBrowsers[i]]
                  /\ MobileProjectAt(i).outputDir = envConfig.exports.MobileReportPath

\* settings has every property of descriptor with the same value, and beside
\* them only a channel property, which holds channel.
DescriptorWithChannel(settings, descriptor, channel) ==
    /\ DOMAIN settings = DOMAIN descriptor \cup {"channel"}
    /\ \A f \in DOMAIN descriptor : settings[f] = descriptor[f]
    /\ settings["channel"] = channel

\* C15 as amended: for a registered target, the individual project's settings
\* have every property of the registry's descriptor unchanged plus a channel
\* property, which holds the target's channel for a desktop target given one
\* and undefined for a desktop target given none and for every mobile target;
\* its output directory is that of its category.
C15_SettingsDescriptorAndChannelProperty ==
    projectConfig.loaded =>
        /\ \A i \in 1..Len(desktopBrowsers) :
              LET t == desktopBrowsers[i] IN
              t.deviceName \in DOMAIN customDevices =>
                  /\ DescriptorWithChannel(DesktopProjectAt(i).use,
                                           customDevices[t.deviceName], t.channel)
                  /\ DesktopProjectAt(i).outputDir = envConfig.exports.DesktopReportPath
        /\ \A i \in 1..Len(mobileBrowsers) :
              mobileBrowsers[i] \in DOMAIN customDevices =>
                  /\ DescriptorWithChannel(MobileProjectAt(i).use,
                                           customDevices[mobileBrowsers[i]], Undefined)
                  /\ MobileProjectAt(i).outputDir = envConfig.exports.MobileReportPath

C15_Witness ==
    /\ projectConfig.loaded
    /\ Len(desktopBrowsers) = 2
    /\ desktopBrowsers[1] = Target(DesktopChrome, Str(<<"c", "h", "r", "o", "m", "e">>))
    /\ desktopBrowsers[2] = Target(DesktopMobile, Undefined)
    /\ Len(mobileBrowsers) = 1
    /\ mobileBrowsers[1] = GalaxyA52Name
    /\ DesktopProjectAt(1).use["channel"] = Str(<<"c", "h", "r", "o", "m", "e">>)
    /\ DesktopProjectAt(2).use["channel"] = Undefined
    /\ MobileProjectAt(1).use["userAgent"] = GalaxyA52.userAgent

\* entry is what the registry holds under deviceName, with no property added
\* (undefined when it holds nothing), and project's settings carry every
\* property of it.
AggregateEntryOf(entry, deviceName, project) ==
    IF deviceName \in DOMAIN customDevices
    THEN /\ entry = customDevices[deviceName]
         /\ \A f \in DOMAIN entry : project.use[f] = entry[f]
    ELSE entry = Undefined

\* C16: the first project is named 'Desktop' and the second 'Mobile'; each has
\* its category's output directory, and its settings are a list with one entry
\* per target of the category, in the order of the list: the registry's
\* descriptor of the target, without a channel property, which is the
\* descriptor the target's individual project carries.
C16_AggregateProjects ==
    projectConfig.loaded =>
        LET desktop == projectConfig.exports[1]
            mobile == projectConfig.exports[2]
        IN  /\ desktop.name = Str(DesktopName)
            /\ desktop.outputDir = envConfig.exports.DesktopReportPath
            /\ Len(desktop.use) = Len(desktopBrowsers)
            /\ \A i \in 1..Len(desktopBrowsers) :
                  AggregateEntryOf(desktop.use[i], desktopBrowsers[i].deviceName,
                                   DesktopProjectAt(i))
            /\ mobile.name = Str(MobileName)
            /\ mobile.outputDir = envConfig.exports.MobileReportPath
            /\ Len(mobile.use) = Len(mobileBrowsers)
            /\ \A i \in 1..Len(mobileBrowsers) :
                  AggregateEntryOf(mobile.use[i], mobileBrowsers[i], MobileProjectAt(i))

C16_Witness ==
    /\ projectConfig.loaded
    /\ Len(desktopBrowsers) = 2
    /\ desktopBrowsers[1] = Target(MyDesktopPC, Undefined)
    /\ desktopBrowsers[2] = Target(DesktopChrome, Str(<<"c", "h", "r", "o", "m", "e">>))
    /\ Len(mobileBrowsers) = 2
    /\ mobileBrowsers[1] = GalaxyA52Name
    /\ mobileBrowsers[2] = ChromeName
    /\ projectConfig.exports[1].use[2] = ComposeDevices[DesktopChrome]
    /\ projectConfig.exports[2].use[1] = GalaxyA52

\* C17: the registry is the user-defined devices laid over the built-in ones.
\* resolve gives the user's descriptor for every user-defined name, also when
\* a built-in device has that name, and the built-in descriptor for every
\* other built-in name; laying the user-defined devices over the registry
\* again gives the registry; a loaded mobile project for a user-defined name
\* carries the user's descriptor.
C17_RegistryOverlay ==
    /\ \A name \in DOMAIN __customList : resolve(name) = __customList[name]
    /\ \A name \in DOMAIN devices \ DOMAIN __customList : resolve(name) = devices[name]
    /\ DOMAIN customDevices = DOMAIN devices \cup DOMAIN __customList
    /\ Spread(customDevices, __customList) = customDevices
    /\ projectConfig.loaded =>
          \A i \in 1..Len(mobileBrowsers) :
             mobileBrowsers[i] \in DOMAIN __customList =>
                \A f \in DOMAIN __customList[mobileBrowsers[i]] :
                   MobileProjectAt(i).use[f] = __customList[mobileBrowsers[i]][f]

C17_Witness ==
    /\ GalaxyA52Name \in DOMAIN devices
    /\ devices[GalaxyA52Name] # GalaxyA52
    /\ resolve(GalaxyA52Name) = GalaxyA52
    /\ resolve(DesktopChrome) = devices[DesktopChrome]
    /\ projectConfig.loaded
    /\ Len(mobileBrowsers) >= 1
    /\ mobileBrowsers[1] = GalaxyA52Name
    /\ MobileProjectAt(1).use.userAgent = GalaxyA52.userAgent

\* C18: the fullyParallel option passed to the test runner is the boolean the
\* environment loader resolved from RUN_PARALLEL (true for 'true' in any
\* case, false for 'false' or an absent variable) and is never undefined.
C18_FullyParallelResolved ==
    runnerConfig.loaded =>
        /\ runnerConfig.exports.fullyParallel = envConfig.exports.RunParallel
        /\ runnerConfig.exports.fullyParallel # Undefined
        /\ runnerConfig.exports.fullyParallel \in {Bool(TRUE), Bool(FALSE)}

====
